---- MODULE Spec2Model ----
(***************************************************************************)
(* Structure-analysis core of segmenter.py: boundary detection by a greedy *)
(* scan over candidate segment counts (get_segments), spectral embedding   *)
(* (laplacian_eigenvectors), cluster-count estimation and section labeling *)
(* (label_estimate_n_components, label_segments, SEGMENT_NAMES) and the    *)
(* segment writer (save_segments).                                         *)
(*                                                                         *)
(* Numeric library calls whose results depend on the audio features        *)
(* (ward clustering, cost of a candidate, eigenvalues) are inputs of the   *)
(* model: their results are drawn from bounded sets.                       *)
(***************************************************************************)
EXTENDS Integers, Sequences, FiniteSets, TLC

VARIABLES
    \* ---- get_segments (segmenter.py 298-314) ----
    N,          \* X_bound.shape[1]: the number of beat frames
    kmin,       \* argument kmin
    kmax,       \* argument kmax
    cost,       \* cost[k]: the cost get_k_segments computes for candidate k
    todo,       \* the part of range(kmax, kmin, -1) not yet iterated
    cost_min,   \* local cost_min
    S_best,     \* local S_best
    S,          \* local S: the boundary set of the last candidate
    evaluated,  \* the k's passed to get_k_segments so far, in call order
    \* ---- SEGMENT_NAMES[idx] (segmenter.py 388) ----
    idx,        \* the cluster id looked up
    name,       \* what the lookup gave: a name, or the error raised
    \* ---- label_segments (segmenter.py 368-389) ----
    n_seg,      \* len(A): the number of segments to label
    spectrum,   \* scipy.linalg.eig(L)[0].real: the eigenvalues, as returned
    n_labels,   \* local n_labels
    label_cost, \* local label_cost
    seg_ids,    \* local seg_ids
    labels,     \* local labels
    \* ---- laplacian_eigenvectors (segmenter.py 144-166) ----
    L_n,        \* L.shape[0]: the size of the Laplacian
    e_vals,     \* eigenvalues (real parts) in the order eig returns them
    e_vecs,     \* eigenvectors, e_vecs[j] being column j of eig's matrix
    k_rep,      \* argument k: the number of rows wanted
    embedding,  \* the rows returned
    \* ---- save_segments (segmenter.py 391-401) ----
    save_S,     \* argument S: the boundary set
    beats,      \* argument beats: beat times, in half milliseconds
    save_labels,\* argument labels: a list of names, or None
    outfile,    \* the lines written: start and end in milliseconds, label
    \* ---- repeated runs of do_segmentation (segmenter.py 418-440) ----
    run,        \* the number of the run under way; 0 outside do_segmentation
    rng,        \* state of numpy's global random generator in this run
    X_ward,     \* what ward clustering of this input gave, per k asked
    X_eigs,     \* the Laplacian spectrum of this input, per boundary set asked
    X_fit,      \* what fit_predict gave for this input, per generator state
    results,    \* what each finished run produced
    pc          \* position of the running function

segVars == <<N, kmin, kmax, cost, todo, cost_min, S_best, S, evaluated>>

nameVars == <<idx, name>>

labelVars == <<n_seg, spectrum, n_labels, label_cost, seg_ids, labels>>

eigVars == <<L_n, e_vals, e_vecs, k_rep, embedding>>

saveVars == <<save_S, beats, save_labels, outfile>>

runVars == <<run, rng, X_ward, X_eigs, X_fit, results>>

vars == <<segVars, nameVars, labelVars, eigVars, saveVars, runVars, pc>>

----------------------------------------------------------------------------
(* Bounds of the model *)

MaxK == 5        \* largest candidate segment count
MaxN == 6        \* largest number of frames
MaxCost == 2     \* costs range over 0..MaxCost
MaxIndex == 10000 \* largest cluster id looked up in the name table
MaxSeg == 5      \* largest number of segments labelled
MaxEig == 2      \* eigenvalues range over 0..MaxEig
MaxDim == 3      \* largest Laplacian size
MaxRep == 4      \* largest number of embedding rows asked for
MaxFrames == 3   \* largest number of frames of a saved segmentation
MaxTime == 5     \* beat times range over 0..MaxTime half milliseconds
RunFrames == 4   \* number of frames of the song segmented repeatedly
MaxRunVal == 1   \* its costs and eigenvalues range over 0..MaxRunVal
MaxRng == 1      \* states of the random generator: 0..MaxRng

\* np.inf: larger than every finite cost
Inf == MaxCost + 1

----------------------------------------------------------------------------
(* The variables of each function while another one is examined *)

IdleSegments ==
    /\ N = 0 /\ kmin = 0 /\ kmax = 0 /\ cost = <<>> /\ todo = <<>>
    /\ cost_min = Inf /\ S_best = <<>> /\ S = <<>> /\ evaluated = <<>>

IdleNames == idx = -1 /\ name = [raised |-> "none", value |-> <<>>]

IdleEig ==
    /\ L_n = 0 /\ e_vals = <<>> /\ e_vecs = <<>> /\ k_rep = 0
    /\ embedding = <<>>

\* Python None for the optional argument labels
None == [given |-> FALSE, list |-> <<>>]

IdleSave ==
    /\ save_S = <<>> /\ beats = <<>> /\ save_labels = None /\ outfile = <<>>

IdleRuns ==
    /\ run = 0 /\ rng = 0 /\ X_ward = <<>> /\ X_eigs = <<>> /\ X_fit = <<>>
    /\ results = <<>>

IdleLabels ==
    /\ n_seg = 0 /\ spectrum = <<>> /\ n_labels = 0 /\ label_cost = 0
    /\ seg_ids = <<>> /\ labels = <<>>

----------------------------------------------------------------------------
(* Generic helpers *)

Max2(a, b) == IF a >= b THEN a ELSE b
Min2(a, b) == IF a <= b THEN a ELSE b

\* the elements of a sequence
Range(s) == {s[i] : i \in DOMAIN s}

\* np.unique: the distinct values of a sequence, ascending
RECURSIVE SortedSeqOf(_)
SortedSeqOf(set) ==
    IF set = {} THEN <<>>
    ELSE LET m == CHOOSE x \in set : \A y \in set : x <= y
         IN  <<m>> \o SortedSeqOf(set \ {m})

np_unique(s) == SortedSeqOf(Range(s))

\* Python range(start, stop, -1): start, start-1, ..., stop+1
RECURSIVE range_down(_, _)
range_down(start, stop) ==
    IF start > stop THEN <<start>> \o range_down(start - 1, stop) ELSE <<>>

----------------------------------------------------------------------------
(* SEGMENT_NAMES *)

\* string.ascii_uppercase, string.ascii_lowercase
ascii_uppercase ==
    << "A", "B", "C", "D", "E", "F", "G", "H", "I", "J", "K", "L", "M",
       "N", "O", "P", "Q", "R", "S", "T", "U", "V", "W", "X", "Y", "Z" >>

ascii_lowercase ==
    << "a", "b", "c", "d", "e", "f", "g", "h", "i", "j", "k", "l", "m",
       "n", "o", "p", "q", "r", "s", "t", "u", "v", "w", "x", "y", "z" >>

\* line 55: list(string.ascii_uppercase); a name is its sequence of characters
single_names == [i \in DOMAIN ascii_uppercase |-> <<ascii_uppercase[i]>>]

\* line 57 with the two characters in the other order
two_char_names_swapped(x) ==
    [j \in DOMAIN ascii_lowercase |-> <<ascii_lowercase[j], x>>]

\* line 57: ['%s%s' % (x, y) for y in string.ascii_lowercase]
two_char_names(x) ==
    [j \in DOMAIN ascii_lowercase |-> <<x, ascii_lowercase[j]>>]

\* lines 56-57: for x in string.ascii_uppercase: SEGMENT_NAMES.extend(...)
RECURSIVE extend_names(_, _)
extend_names(names, i) ==
    IF i > Len(ascii_uppercase) THEN names
    ELSE extend_names(names \o two_char_names(ascii_uppercase[i]), i + 1)

\* lines 55-57: the table after module initialisation
SEGMENT_NAMES == extend_names(single_names, 1)

\* line 388: SEGMENT_NAMES[idx] for a cluster id idx >= 0; a Python list
\* raises IndexError past its end
segment_name(i) ==
    IF i < Len(SEGMENT_NAMES)
    THEN [raised |-> "none", value |-> SEGMENT_NAMES[i + 1]]
    ELSE [raised |-> "IndexError", value |-> <<>>]

InitNames ==
    /\ IdleSegments /\ IdleNames /\ IdleLabels /\ IdleEig /\ IdleSave
    /\ IdleRuns
    /\ pc = "names"

\* line 388: one lookup of a cluster id
NameLookup ==
    /\ pc = "names"
    /\ \E i \in 0 .. MaxIndex :
         /\ idx' = i
         /\ name' = segment_name(i)
    /\ pc' = "named"
    /\ UNCHANGED <<runVars, segVars, labelVars, eigVars, saveVars>>

NextNames == NameLookup

SpecNames == InitNames /\ [][NextNames]_vars

\* C4: the name sequence is defined for every index 0 to 10000 (a lookup
\* yields a name, not an error) and is injective there: no other index
\* yields the same name.
C4_NamesTotalInjective ==
    idx >= 0 =>
       /\ name.raised = "none"
       /\ \A j \in 0 .. MaxIndex : j # idx => segment_name(j) # name

\* C5: index i < 26 maps to the i-th uppercase letter; index i >= 26 within
\* the table maps to uppercase letter (i-26) div 26 followed by lowercase
\* letter (i-26) mod 26; name(0) = "A", name(25) = "Z", name(26) = "Aa",
\* name(27) = "Ab".
C5_NameTable ==
    /\ (idx >= 0 /\ idx < 26) =>
          name = [raised |-> "none", value |-> <<ascii_uppercase[idx + 1]>>]
    /\ (idx >= 26 /\ idx < Len(SEGMENT_NAMES)) =>
          name = [raised |-> "none",
                  value |-> << ascii_uppercase[((idx - 26) \div 26) + 1],
                               ascii_lowercase[((idx - 26) % 26) + 1] >>]
    /\ segment_name(0).value = <<"A">>
    /\ segment_name(25).value = <<"Z">>
    /\ segment_name(26).value = <<"A", "a">>
    /\ segment_name(27).value = <<"A", "b">>

\* C5 witness: a two-character name past the first row was looked up
C5_Witness ==
    idx = 53 /\ name.raised = "none" /\ name.value = <<"B", "b">>

----------------------------------------------------------------------------
(* label_estimate_n_components / label_segments *)

\* spectrum.sort(): ascending, by insertion
RECURSIVE insert_ascending(_, _)
insert_ascending(s, x) ==
    IF s = <<>> THEN <<x>>
    ELSE IF x < Head(s) THEN <<x>> \o s
    ELSE <<Head(s)>> \o insert_ascending(Tail(s), x)

RECURSIVE sort_ascending(_)
sort_ascending(s) ==
    IF s = <<>> THEN <<>>
    ELSE insert_ascending(sort_ascending(Tail(s)), Head(s))

\* np.diff
np_diff(s) == [i \in 1 .. (Len(s) - 1) |-> s[i + 1] - s[i]]

\* np.argmax keeping the last of several equal maxima
RECURSIVE argmax_last_from(_, _, _)
argmax_last_from(g, i, best) ==
    IF i > Len(g) THEN best - 1
    ELSE argmax_last_from(g, i + 1, IF g[i] >= g[best] THEN i ELSE best)

np_argmax_last(g) == argmax_last_from(g, 2, 1)

\* np.argmax: the 0-based index of the first maximum, by a left-to-right scan
RECURSIVE argmax_from(_, _, _)
argmax_from(g, i, best) ==
    IF i > Len(g) THEN best - 1
    ELSE argmax_from(g, i + 1, IF g[i] > g[best] THEN i ELSE best)

np_argmax(g) == argmax_from(g, 2, 1)

\* np.max
RECURSIVE np_max(_)
np_max(g) ==
    IF Len(g) = 1 THEN g[1] ELSE Max2(g[1], np_max(Tail(g)))

\* lines 358-366: label_estimate_n_components, from the eigenvalues of the
\* Laplacian of A on
label_estimate_n_components(eigs) ==
    LET spectral_gap == np_diff(sort_ascending(eigs))
    IN  [count |-> 1 + np_argmax(spectral_gap), gap |-> np_max(spectral_gap)]

\* line 379 without the lower clamp
clamp_no_floor(n, est) == Min2(n - 1, est)

\* line 379: min(len(A)-1, max(2, n_labels))
clamp_n_labels(n, est) == Min2(n - 1, Max2(2, est))

\* line 385: C.fit_predict(A): a cluster id below n_clusters for each of the
\* n segments; which one depends on the affinities
fit_predict(n, n_clusters) == [1 .. n -> 0 .. (n_clusters - 1)]

\* entry of label_segments with the affinity matrix of n_seg segments
InitLabels ==
    /\ IdleRuns
    /\ IdleSegments
    /\ IdleNames
    /\ IdleEig
    /\ IdleSave
    /\ n_seg \in 1 .. MaxSeg
    /\ spectrum \in [1 .. n_seg -> 0 .. MaxEig]
    /\ n_labels = 0
    /\ label_cost = 0
    /\ seg_ids = <<>>
    /\ labels = <<>>
    /\ pc = "affinity"

\* line 374, label_build_affinity lines 317-328: with one segment only,
\* np.sort(D, axis=1)[:, 1] has no column 1
LabelAffinityError ==
    /\ pc = "affinity"
    /\ n_seg < 2
    /\ pc' = "IndexError"
    /\ UNCHANGED <<runVars, segVars, nameVars, labelVars, eigVars, saveVars>>

\* lines 374-377: build the affinity matrix and estimate the cluster count
LabelEstimate ==
    /\ pc = "affinity"
    /\ n_seg >= 2
    /\ LET est == label_estimate_n_components(spectrum) IN
         /\ n_labels' = est.count
         /\ label_cost' = est.gap
    /\ pc' = "clamp"
    /\ UNCHANGED <<runVars, segVars, nameVars, eigVars, saveVars, n_seg,
                   spectrum, seg_ids, labels>>

\* line 379
LabelClamp ==
    /\ pc = "clamp"
    /\ n_labels' = clamp_n_labels(n_seg, n_labels)
    /\ pc' = "cluster"
    /\ UNCHANGED <<runVars, segVars, nameVars, eigVars, saveVars, n_seg,
                   spectrum, label_cost, seg_ids, labels>>

\* lines 382-389: cluster, map the ids to names, return
LabelClusterStep ==
    /\ pc = "cluster"
    /\ \E ids \in fit_predict(n_seg, n_labels) :
         /\ seg_ids' = ids
         /\ IF \A i \in DOMAIN ids : segment_name(ids[i]).raised = "none"
            THEN /\ labels' = [i \in DOMAIN ids |-> segment_name(ids[i]).value]
                 /\ pc' = "labelled"
            ELSE /\ labels' = labels
                 /\ pc' = "IndexError"
    /\ UNCHANGED <<segVars, nameVars, eigVars, saveVars, n_seg, spectrum,
                   n_labels, label_cost>>

\* the clustering step within a single call of label_segments
LabelCluster == LabelClusterStep /\ UNCHANGED runVars

NextLabels == LabelAffinityError \/ LabelEstimate \/ LabelClamp \/ LabelCluster

SpecLabels == InitLabels /\ [][NextLabels]_vars

----------------------------------------------------------------------------
(* Claims about label_estimate_n_components and label_segments *)

\* the i-th smallest of the values of e, counted with multiplicity
Ranked(e, i) ==
    CHOOSE v \in Range(e) :
        /\ Cardinality({j \in DOMAIN e : e[j] < v}) < i
        /\ i <= Cardinality({j \in DOMAIN e : e[j] <= v})

\* the gap between the i-th and the (i+1)-th smallest eigenvalue
GapAt(e, i) == Ranked(e, i + 1) - Ranked(e, i)

\* the largest of the consecutive gaps
LargestGap(e) ==
    CHOOSE g \in {GapAt(e, i) : i \in 1 .. (Len(e) - 1)} :
        \A i \in 1 .. (Len(e) - 1) : GapAt(e, i) <= g

\* the 0-based index of the first largest gap
FirstLargestGapIndex(e) ==
    (CHOOSE i \in 1 .. (Len(e) - 1) :
        /\ GapAt(e, i) = LargestGap(e)
        /\ \A j \in 1 .. (i - 1) : GapAt(e, j) < LargestGap(e)) - 1

\* C6 (as stated): for every number of segments and every estimate, the
\* cluster count passed to spectral clustering lies in [2, n-1].
C6_ClampRange ==
    pc \in {"cluster", "labelled"} => (2 <= n_labels /\ n_labels <= n_seg - 1)

\* C6 (amended): for every number of segments n >= 3 the cluster count passed
\* to spectral clustering lies in [2, n-1]; for n = 2 it is 1; the clamp
\* itself never raises.
C6_ClampRangeFrom3 ==
    /\ (pc \in {"cluster", "labelled"} /\ n_seg >= 3) =>
          (2 <= n_labels /\ n_labels <= n_seg - 1)
    /\ (pc \in {"cluster", "labelled"} /\ n_seg = 2) => n_labels = 1
    /\ pc = "IndexError" => n_seg < 2

\* C6 witness: an estimate of 1, below the range, was clamped to 2
C6_Witness ==
    /\ pc = "cluster"
    /\ n_seg >= 3
    /\ label_estimate_n_components(spectrum).count = 1
    /\ n_labels = 2

\* C10: from the spectrum sorted ascending (n >= 2 values) the estimator
\* returns 1 + the index of the largest consecutive gap, the first one when
\* several are equal, and that gap's size; the count lies in [1, n-1], and it
\* is 2 when the largest gap is between the 2nd and the 3rd eigenvalue.
C10_SpectralGapEstimate ==
    pc = "clamp" =>
       /\ n_labels = 1 + FirstLargestGapIndex(spectrum)
       /\ label_cost = LargestGap(spectrum)
       /\ 1 <= n_labels /\ n_labels <= n_seg - 1
       /\ ( /\ n_seg >= 3
            /\ \A i \in 1 .. (n_seg - 1) :
                  i # 2 => GapAt(spectrum, i) < GapAt(spectrum, 2) )
          => n_labels = 2

\* C10 witness: the largest gap occurs twice, first between the 2nd and the
\* 3rd eigenvalue, and the estimate is 2
C10_Witness ==
    /\ pc = "clamp"
    /\ n_seg >= 4
    /\ GapAt(spectrum, 2) = LargestGap(spectrum)
    /\ GapAt(spectrum, 3) = LargestGap(spectrum)
    /\ GapAt(spectrum, 1) < LargestGap(spectrum)
    /\ n_labels = 2

----------------------------------------------------------------------------
(* laplacian_eigenvectors *)

\* A matrix is the sequence of its columns, a column the sequence of its
\* entries; the transpose .T turns the columns into the rows returned.

\* column j of the matrix scipy.linalg.eig returns for a Laplacian of size
\* n.  The function only moves columns around, so each entry carries its
\* column and its row; no entry is 0.
eig_vector(j, n) == [r \in 1 .. n |-> 10 * j + r]

\* np.argsort(e_vals): the index orders that put the values in ascending
\* order; the order of equal values is not fixed
np_argsort(v) ==
    {p \in [DOMAIN v -> DOMAIN v] :
        /\ \A i, j \in DOMAIN v : i # j => p[i] # p[j]
        /\ \A i \in 1 .. (Len(v) - 1) : v[p[i]] <= v[p[i + 1]]}

\* a[idx], a[:, idx]
take(a, p) == [i \in DOMAIN p |-> a[p[i]]]

\* lines 153-154 leaving the bottom eigenvector in
trim_nothing(a) == a

\* lines 153-154: a[1:], a[:, 1:]
trim_bottom(a) == Tail(a)

\* a[:k], a[:, :k]
first_k(a, k) == [i \in 1 .. Min2(k, Len(a)) |-> a[i]]

\* line 162: np.pad(e_vecs, [(0,0), (0, k - e_vecs.shape[1])]): zero columns
\* of n rows appended on the right
pad_columns(a, k, n) ==
    a \o [i \in 1 .. (k - Len(a)) |-> [r \in 1 .. n |-> 0]]

\* lines 147-166 for one argsort result p
laplacian_eigenvectors_with(vals, vecs, k, p) ==
    LET sorted_vecs == take(vecs, p)
        trimmed == trim_bottom(sorted_vecs)
        sized == IF k < Len(trimmed) THEN first_k(trimmed, k)
                 ELSE IF k > Len(trimmed) THEN pad_columns(trimmed, k, Len(vals))
                 ELSE trimmed
    IN  first_k(sized, k)

\* laplacian_eigenvectors(L, k): the results it can give
laplacian_eigenvectors(vals, vecs, k) ==
    {laplacian_eigenvectors_with(vals, vecs, k, p) : p \in np_argsort(vals)}

InitEig ==
    /\ IdleRuns
    /\ IdleSegments
    /\ IdleNames
    /\ IdleLabels
    /\ IdleSave
    /\ L_n \in 1 .. MaxDim
    /\ e_vals \in [1 .. L_n -> 0 .. MaxEig]
    /\ e_vecs = [j \in 1 .. L_n |-> eig_vector(j, L_n)]
    /\ k_rep \in 0 .. MaxRep
    /\ embedding = <<>>
    /\ pc = "eig"

\* lines 144-166
LaplacianEigenvectors ==
    /\ pc = "eig"
    /\ embedding' \in laplacian_eigenvectors(e_vals, e_vecs, k_rep)
    /\ pc' = "embedded"
    /\ UNCHANGED <<runVars, segVars, nameVars, labelVars, saveVars, L_n, e_vals, e_vecs,
                   k_rep>>

NextEig == LaplacianEigenvectors

SpecEig == InitEig /\ [][NextEig]_vars

\* the eigenvalue of the eigenvector stored in a row of the result
RowEigenvalue(row) == e_vals[CHOOSE j \in DOMAIN e_vecs : e_vecs[j] = row]

\* C7: laplacian_eigenvectors returns exactly k rows of length N: the
\* eigenvectors of the 2nd, 3rd, ... smallest eigenvalues in that order (the
\* one of the smallest being dropped), as many as there are up to k, and
\* all-zero rows after them until there are k.
C7_EmbeddingShape ==
    pc = "embedded" =>
       /\ Len(embedding) = k_rep
       /\ \A i \in DOMAIN embedding : Len(embedding[i]) = L_n
       /\ \A i \in 1 .. Min2(k_rep, L_n - 1) :
             /\ embedding[i] \in Range(e_vecs)
             /\ RowEigenvalue(embedding[i]) = Ranked(e_vals, i + 1)
             /\ \A j \in 1 .. (i - 1) : embedding[j] # embedding[i]
       /\ \A i \in L_n .. k_rep : \A r \in 1 .. L_n : embedding[i][r] = 0

\* C7 witness: fewer eigenvectors than rows asked for, so eigenvectors were
\* kept and zero rows appended
C7_Witness ==
    /\ pc = "embedded"
    /\ L_n >= 3
    /\ k_rep > L_n
    /\ e_vals[1] > e_vals[2]
    /\ embedding[1] \in Range(e_vecs)
    /\ \A r \in 1 .. L_n : embedding[k_rep][r] = 0

----------------------------------------------------------------------------
(* save_segments *)

\* Times are whole numbers of half milliseconds.  '%.3f' prints the nearest
\* millisecond, an exact half going to the even one; the text printed is
\* represented by that number of milliseconds.
format_3f(t) ==
    LET q == t \div 2
    IN  IF t % 2 = 0 THEN q
        ELSE IF q % 2 = 0 THEN q ELSE q + 1

decimal_digits == << "0", "1", "2", "3", "4", "5", "6", "7", "8", "9" >>

\* line 394: 'Seg#%03d' % idx, for idx below 1000
default_label(i) ==
    << "S", "e", "g", "#",
       decimal_digits[((i \div 100) % 10) + 1],
       decimal_digits[((i \div 10) % 10) + 1],
       decimal_digits[(i % 10) + 1] >>

\* line 394: [('Seg#%03d' % idx) for idx in range(1, len(S))]
default_labels(B) == [i \in 1 .. (Len(B) - 1) |-> default_label(i)]

\* line 396 taking the first len(S) beats instead of the beats S points at
index_beats_prefix(b, B) == [i \in DOMAIN B |-> b[i]]

\* line 396: times = beats[S], S holding 0-based frame indices
index_beats(b, B) == [i \in DOMAIN B |-> b[B[i] + 1]]

\* lines 398-399: one line per element of zip(times[:-1], times[1:], labels)
written_lines(times, labs) ==
    [i \in 1 .. Min2(Len(times) - 1, Len(labs)) |->
        [start |-> format_3f(times[i]),
         end |-> format_3f(times[i + 1]),
         label |-> labs[i]]]

\* lines 391-401: the content of outfile
save_segments(B, b, labs) ==
    LET used == IF labs = None THEN default_labels(B) ELSE labs.list
    IN  written_lines(index_beats(b, B), used)

\* the strictly increasing sequences of m values of 0..hi
IncreasingSeqs(m, hi) ==
    {SortedSeqOf(T) : T \in {U \in SUBSET (0 .. hi) : Cardinality(U) = m}}

\* the boundary sets over n frames
BoundarySets(n) ==
    {SortedSeqOf({0, n} \cup I) : I \in SUBSET (1 .. (n - 1))}

\* the label lists label_segments returns for m segments: one name each
LabelLists(m) ==
    {[given |-> TRUE, list |-> [i \in 1 .. m |-> segment_name(ids[i]).value]] :
        ids \in [1 .. m -> 0 .. 1]}

\* entry of save_segments, as called with a boundary set over n frames, the
\* n+1 beat times and either no labels (line 393) or those of label_segments
\* (line 438)
InitSave ==
    /\ IdleRuns
    /\ IdleSegments
    /\ IdleNames
    /\ IdleLabels
    /\ IdleEig
    /\ \E n \in 1 .. MaxFrames :
         /\ save_S \in BoundarySets(n)
         /\ beats \in IncreasingSeqs(n + 1, MaxTime)
    /\ save_labels \in {None} \cup LabelLists(Len(save_S) - 1)
    /\ outfile = <<>>
    /\ pc = "save"

\* lines 391-401
SaveSegments ==
    /\ pc = "save"
    /\ outfile' = save_segments(save_S, beats, save_labels)
    /\ pc' = "saved"
    /\ UNCHANGED <<runVars, segVars, nameVars, labelVars, eigVars, save_S, beats,
                   save_labels>>

NextSave == SaveSegments

SpecSave == InitSave /\ [][NextSave]_vars

\* C8: save_segments writes exactly one line per segment (len(S)-1 lines),
\* in time order, the end time of each line being the start time of the
\* next, the first start time being that of beats[0] and the last end time
\* that of the trailing sentinel beats[N].
C8_ContiguousLines ==
    pc = "saved" =>
       /\ Len(outfile) = Len(save_S) - 1
       /\ \A i \in 1 .. (Len(outfile) - 1) :
             outfile[i].end = outfile[i + 1].start
       /\ \A i \in DOMAIN outfile : outfile[i].start <= outfile[i].end
       /\ outfile[1].start = format_3f(beats[1])
       /\ outfile[Len(outfile)].end = format_3f(beats[Len(beats)])

\* C8 witness: three segments were written, one of them spanning two frames
C8_Witness ==
    /\ pc = "saved"
    /\ Len(outfile) = 2
    /\ Len(beats) = 4
    /\ outfile[1].start < outfile[1].end
    /\ outfile[2].start < outfile[2].end

----------------------------------------------------------------------------
(* get_k_segments / get_segments *)

\* librosa.segment.agglomerative(X_bound, k): the left boundaries of k
\* contiguous segments of n frames, ascending, the first one being frame 0.
\* Which ones depends on the features: any such sequence is possible.
agglomerative(n, k) ==
    {SortedSeqOf({0} \cup inner) :
        inner \in {I \in SUBSET (1 .. (n - 1)) : Cardinality(I) = k - 1}}

\* line 288: np.unique(np.concatenate(([0], boundaries, [X_bound.shape[1]])))
sentinel_boundaries(boundaries, n) == np_unique(<<0>> \o boundaries \o <<n>>)

\* get_k_segments: the boundary sets it can return for candidate k
get_k_segments(n, k) ==
    {sentinel_boundaries(b, n) : b \in agglomerative(n, k)}

\* line 308 with '<' in place of '<='
accepts_strict(c, best) == c < best

\* line 308: cost <= cost_min
accepts(c, best) == c <= best

\* line 305: range(kmax, kmin, -1)
scan_range(hi, lo) == range_down(hi, lo)

\* the BoundarySet invariant of a sequence of frame indices over n frames
IsBoundarySet(B, n) ==
    /\ Len(B) >= 2
    /\ B[1] = 0
    /\ B[Len(B)] = n
    /\ \A i \in 1 .. (Len(B) - 1) : B[i] < B[i + 1]

\* lines 303-305: entry of get_segments
InitSegments ==
    /\ IdleRuns
    /\ IdleNames
    /\ IdleLabels
    /\ IdleEig
    /\ IdleSave
    /\ kmin \in 1 .. MaxK
    /\ kmax \in 1 .. MaxK
    /\ N \in Max2(2, kmax) .. MaxN
    /\ cost \in [kmin .. kmax -> 0 .. MaxCost]
    /\ todo = scan_range(kmax, kmin)
    /\ cost_min = Inf
    /\ S_best = <<>>
    /\ S = <<>>
    /\ evaluated = <<>>
    /\ pc = "scan"

\* lines 305-310: one iteration whose candidate is accepted
ScanAcceptStep ==
    /\ pc = "scan"
    /\ todo # <<>>
    /\ LET k == Head(todo) IN
       /\ accepts(cost[k], cost_min)
       /\ \E s \in get_k_segments(N, k) :
            /\ S' = s
            /\ S_best' = s
            /\ cost_min' = cost[k]
       /\ evaluated' = Append(evaluated, k)
    /\ todo' = Tail(todo)
    /\ UNCHANGED <<N, kmin, kmax, cost, pc, nameVars, labelVars, eigVars,
                   saveVars>>

\* lines 305-312: one iteration whose candidate is rejected: break, return
ScanBreakStep ==
    /\ pc = "scan"
    /\ todo # <<>>
    /\ LET k == Head(todo) IN
       /\ ~accepts(cost[k], cost_min)
       /\ S' \in get_k_segments(N, k)
       /\ evaluated' = Append(evaluated, k)
    /\ todo' = Tail(todo)
    /\ pc' = "returned"
    /\ UNCHANGED <<N, kmin, kmax, cost, cost_min, S_best, nameVars, labelVars,
                   eigVars, saveVars>>

\* the two iterations within a single call of get_segments
ScanAccept == ScanAcceptStep /\ UNCHANGED runVars

ScanBreak == ScanBreakStep /\ UNCHANGED runVars

\* lines 305, 314: the range is exhausted: return S_best
ScanExhausted ==
    /\ pc = "scan"
    /\ todo = <<>>
    /\ pc' = "returned"
    /\ UNCHANGED <<runVars, segVars, nameVars, labelVars, eigVars, saveVars>>

----------------------------------------------------------------------------
(* Claims about get_segments *)

\* the candidates are visited downward from kmax, one by one
ScanOrder == \A i \in DOMAIN evaluated : evaluated[i] = kmax - i + 1

\* the costs of the first m evaluated candidates never increase
NonIncreasing(m) ==
    \A i \in 2 .. m : cost[evaluated[i]] <= cost[evaluated[i - 1]]

\* S_best is the boundary set computed for the m-th evaluated candidate
\* (the empty list when there is none), and cost_min is its cost
BestIs(m) ==
    IF m = 0 THEN S_best = <<>> /\ cost_min = Inf
    ELSE /\ Len(S_best) = evaluated[m] + 1
         /\ cost_min = cost[evaluated[m]]

\* the scan stopped at a strict increase of the last evaluated candidate
StoppedAtIncrease ==
    /\ pc = "returned"
    /\ Len(evaluated) >= 2
    /\ cost[evaluated[Len(evaluated)]] > cost[evaluated[Len(evaluated) - 1]]

\* C1: get_segments starts from best cost +infinity, accepts a candidate
\* whenever its cost is <= the best so far, stops at the first candidate
\* whose cost is strictly greater, and returns the boundary set of the last
\* accepted candidate: so of consecutive equal costs the lower k wins, and
\* no candidate after the first strict increase is ever looked at.
C1_GreedyStop ==
    /\ ScanOrder
    /\ pc = "scan" =>
          /\ NonIncreasing(Len(evaluated))
          /\ BestIs(Len(evaluated))
    /\ pc = "returned" =>
          \/ /\ todo = <<>>
             /\ NonIncreasing(Len(evaluated))
             /\ BestIs(Len(evaluated))
          \/ /\ StoppedAtIncrease
             /\ NonIncreasing(Len(evaluated) - 1)
             /\ BestIs(Len(evaluated) - 1)

\* C1 witness: the scan accepted a tie, stopped at a strict increase, and a
\* candidate it never looked at is cheaper than the one returned
C1_Witness ==
    /\ StoppedAtIncrease
    /\ \E i \in 2 .. (Len(evaluated) - 1) :
          cost[evaluated[i]] = cost[evaluated[i - 1]]
    /\ \E k \in Range(todo) : cost[k] < cost_min

\* C2: the candidate range is inclusive at both ends: when the costs never
\* increase from k = kmax down to k = kmin, every k in [kmin, kmax] is
\* evaluated and the boundary set returned is the one computed for kmin.
C2_InclusiveRange ==
    ( /\ pc = "returned"
      /\ kmin <= kmax
      /\ \A k \in kmin .. (kmax - 1) : cost[k] <= cost[k + 1] )
    => /\ \A k \in kmin .. kmax : k \in Range(evaluated)
       /\ Len(S_best) = kmin + 1

\* C3: every boundary set produced, the one of each candidate and the one
\* get_segments returns for a candidate range kmin <= kmax, starts at 0,
\* ends at N and is strictly increasing.
C3_BoundarySets ==
    /\ evaluated # <<>> => IsBoundarySet(S, N)
    /\ (pc = "returned" /\ kmin <= kmax) => IsBoundarySet(S_best, N)

----------------------------------------------------------------------------

NextSegments == ScanAccept \/ ScanBreak \/ ScanExhausted

SpecSegments == InitSegments /\ [][NextSegments]_vars

----------------------------------------------------------------------------
(* do_segmentation, run repeatedly on one input *)

\* one second, in the unit of the beat times
Second == 2 * 1000

\* defaults of get_num_segs, in seconds
MIN_SEG == 10
MAX_SEG == 45

\* np.ceil(a / b) for a >= 0, b > 0
ceil_div(a, b) == (a + b - 1) \div b

\* get_num_segs with the floor of kmax lowered to that of kmin
get_num_segs_low_kmax(duration) ==
    [kmin |-> Max2(2, duration \div (MAX_SEG * Second)),
     kmax |-> Max2(2, ceil_div(duration, MIN_SEG * Second))]

\* lines 412-416
get_num_segs(duration) ==
    [kmin |-> Max2(2, duration \div (MAX_SEG * Second)),
     kmax |-> Max2(3, ceil_div(duration, MIN_SEG * Second))]

\* durations, in seconds, of the songs segmented repeatedly
RunDurations == {25, 35}

\* n+1 beat times, evenly spaced, the last one being the duration
uniform_beats(n, duration) == [i \in 1 .. (n + 1) |-> ((i - 1) * duration) \div n]

\* line 434: librosa.feature.sync(W_lab.dot(X), S) has one column per
\* interval of np.unique([0] + S + [n_frames])
sync_columns(B, n) == Len(sentinel_boundaries(B, n)) - 1

\* the number of runs compared
Runs == 1 + 1

\* One song: its frames, beat times and the costs of its candidates are
\* fixed; what the library computes from it is fixed as soon as it has been
\* computed once (X_ward, X_eigs, X_fit).
InitRuns ==
    /\ IdleNames
    /\ IdleLabels
    /\ IdleEig
    /\ N = RunFrames
    /\ \E d \in RunDurations : beats = uniform_beats(N, d * Second)
    /\ kmin = 0 /\ kmax = 0
    /\ LET ks == get_num_segs(beats[Len(beats)])
       IN  cost \in [ks.kmin .. ks.kmax -> 0 .. MaxRunVal]
    /\ todo = <<>> /\ cost_min = Inf /\ S_best = <<>> /\ S = <<>>
    /\ evaluated = <<>>
    /\ save_S = <<>> /\ save_labels = None /\ outfile = <<>>
    /\ run = 1
    /\ rng \in 0 .. MaxRng
    /\ X_ward = <<>> /\ X_eigs = <<>> /\ X_fit = <<>>
    /\ results = <<>>
    /\ pc = "start"

\* lines 418-430: the search bounds, then entry of get_segments
RunStart ==
    /\ pc = "start"
    /\ LET ks == get_num_segs(beats[Len(beats)]) IN
         /\ kmin' = ks.kmin
         /\ kmax' = ks.kmax
         /\ todo' = scan_range(ks.kmax, ks.kmin)
    /\ cost_min' = Inf
    /\ S_best' = <<>>
    /\ S' = <<>>
    /\ evaluated' = <<>>
    /\ pc' = "scan"
    /\ UNCHANGED <<N, cost, nameVars, labelVars, eigVars, saveVars, runVars>>

\* ward clustering is a function of the input: asked again for the same k
\* it returns what it returned before
WardOfInput ==
    LET k == Head(todo) IN
    IF k \in DOMAIN X_ward
    THEN S' = X_ward[k] /\ X_ward' = X_ward
    ELSE X_ward' = (k :> S') @@ X_ward

RunScanAccept ==
    /\ ScanAcceptStep
    /\ WardOfInput
    /\ UNCHANGED <<run, rng, X_eigs, X_fit, results>>

RunScanBreak ==
    /\ ScanBreakStep
    /\ WardOfInput
    /\ UNCHANGED <<run, rng, X_eigs, X_fit, results>>

\* line 434: entry of label_segments with the segments of S; the spectrum of
\* their affinity matrix is a function of the input
RunCallLabel ==
    /\ pc = "returned"
    /\ n_seg' = sync_columns(S_best, N)
    /\ spectrum' \in [1 .. n_seg' -> 0 .. MaxRunVal]
    /\ IF S_best \in DOMAIN X_eigs
       THEN spectrum' = X_eigs[S_best] /\ X_eigs' = X_eigs
       ELSE X_eigs' = (S_best :> spectrum') @@ X_eigs
    /\ n_labels' = 0
    /\ label_cost' = 0
    /\ seg_ids' = <<>>
    /\ labels' = <<>>
    /\ pc' = "affinity"
    /\ UNCHANGED <<segVars, nameVars, eigVars, saveVars, run, rng, X_ward,
                   X_fit, results>>

\* lines 382-385: SpectralClustering is built without random_state, so
\* fit_predict draws from the global generator: its result is a function of
\* the input and of the generator's state
RunLabelCluster ==
    /\ LabelClusterStep
    /\ IF rng \in DOMAIN X_fit
       THEN seg_ids' = X_fit[rng] /\ X_fit' = X_fit
       ELSE X_fit' = (rng :> seg_ids') @@ X_fit
    /\ UNCHANGED <<run, rng, X_ward, X_eigs, results>>

\* line 438: entry of save_segments
RunCallSave ==
    /\ pc = "labelled"
    /\ save_S' = S_best
    /\ save_labels' = [given |-> TRUE, list |-> labels]
    /\ outfile' = <<>>
    /\ pc' = "save"
    /\ UNCHANGED <<segVars, nameVars, labelVars, eigVars, beats, runVars>>

\* line 440: the run is over; the next one starts from the same input, in a
\* process whose generator is in any state
RunEnd ==
    /\ pc = "saved"
    /\ run >= 1
    /\ results' = Append(results,
                    [boundaries |-> S_best, labels |-> labels, lines |-> outfile])
    /\ kmin' = 0 /\ kmax' = 0 /\ todo' = <<>> /\ cost_min' = Inf
    /\ S_best' = <<>> /\ S' = <<>> /\ evaluated' = <<>>
    /\ n_seg' = 0 /\ spectrum' = <<>> /\ n_labels' = 0 /\ label_cost' = 0
    /\ seg_ids' = <<>> /\ labels' = <<>>
    /\ save_S' = <<>> /\ save_labels' = None /\ outfile' = <<>>
    /\ IF run < Runs
       THEN run' = run + 1 /\ rng' \in 0 .. MaxRng /\ pc' = "start"
       ELSE run' = run /\ rng' = rng /\ pc' = "done"
    /\ UNCHANGED <<N, cost, beats, nameVars, eigVars, X_ward, X_eigs, X_fit>>

NextRuns ==
    \/ RunStart
    \/ RunScanAccept
    \/ RunScanBreak
    \/ ScanExhausted
    \/ RunCallLabel
    \/ LabelEstimate
    \/ LabelClamp
    \/ RunLabelCluster
    \/ RunCallSave
    \/ SaveSegments
    \/ RunEnd

SpecRuns == InitRuns /\ [][NextRuns]_vars

\* C9: two runs of do_segmentation on the same feature matrix, beat times
\* and configuration produce the same boundaries and the same labels.
C9_Deterministic ==
    Len(results) = Runs =>
       /\ results[1].boundaries = results[2].boundaries
       /\ results[1].labels = results[2].labels

\* the boundaries alone do not depend on the run
RunsSameBoundaries ==
    Len(results) = Runs => results[1].boundaries = results[2].boundaries

----------------------------------------------------------------------------
(* do_segmentation: the search bounds of a song of any duration *)

\* the longest duration tried, in half seconds
MaxHalfSeconds == 280

\* durations on the half second and one time unit to either side of it
Durations ==
    {d \in {h * (Second \div 2) + e : h \in 0 .. MaxHalfSeconds, e \in {0 - 1, 0, 1}} :
        d >= 0}

\* The candidates' costs. A song with at most MaxK candidates has any
\* costs; a longer one has a cost that rises right after the first
\* candidate, so that its scan stops there.
CandidateCosts(ks) ==
    IF ks.kmax <= MaxK
    THEN [ks.kmin .. ks.kmax -> 0 .. MaxRunVal]
    ELSE {[k \in ks.kmin .. ks.kmax |-> IF k = ks.kmax THEN c ELSE c + 1] :
             c \in 0 .. MaxRunVal}

\* One song of some duration, with the fewest frames that kmax segments need.
InitNumSegs ==
    /\ IdleRuns
    /\ IdleNames
    /\ IdleLabels
    /\ IdleEig
    /\ \E d \in Durations :
          LET ks == get_num_segs(d)
          IN  /\ N = ks.kmax
              /\ beats = uniform_beats(N, d)
              /\ cost \in CandidateCosts(ks)
    /\ kmin = 0 /\ kmax = 0
    /\ todo = <<>> /\ cost_min = Inf /\ S_best = <<>> /\ S = <<>>
    /\ evaluated = <<>>
    /\ save_S = <<>> /\ save_labels = None /\ outfile = <<>>
    /\ pc = "start"

NextNumSegs ==
    \/ RunStart
    \/ ScanAccept
    \/ ScanBreak
    \/ ScanExhausted

SpecNumSegs == InitNumSegs /\ [][NextNumSegs]_vars

\* the duration do_segmentation passes on: the last beat time
Duration == beats[Len(beats)]

\* q is the floor of d / m
IsFloor(q, d, m) == q * m <= d /\ d < (q + 1) * m

\* q is the ceiling of d / m
IsCeil(q, d, m) == (q - 1) * m < d /\ d <= q * m

\* C11: for every duration >= 0 the bounds are kmin = max(2, floor(d/45))
\* and kmax = max(3, ceil(d/10)) with kmin < kmax; the scan therefore has a
\* first candidate, kmax, and once it has returned the best boundary set is
\* a boundary set of the song, never the initial empty list.
C11_ScanNeverEmpty ==
    /\ pc # "start" =>
          /\ \E q \in 0 .. kmin :
                IsFloor(q, Duration, MAX_SEG * Second) /\ kmin = Max2(2, q)
          /\ \E q \in 0 .. kmax :
                IsCeil(q, Duration, MIN_SEG * Second) /\ kmax = Max2(3, q)
          /\ kmin < kmax
    /\ (pc = "scan" /\ evaluated = <<>>) => (todo # <<>> /\ Head(todo) = kmax)
    /\ pc = "returned" =>
          /\ evaluated # <<>>
          /\ evaluated[1] = kmax
          /\ IsBoundarySet(S_best, N)

\* a song of 135 s or more, where kmin is above its floor of 2, has been
\* scanned and a boundary set returned
C11_Witness ==
    /\ pc = "returned"
    /\ Duration >= 3 * MAX_SEG * Second
    /\ kmin = 3
    /\ kmin < kmax
    /\ evaluated # <<>>
    /\ S_best # <<>>

====
